---- MODULE Spec2Model ----
(***************************************************************************)
(* Model of the jobfinder backend: the HTML-scraping search of             *)
(* backend/service.py (sequential accumulation of upstream listing pages,  *)
(* de-duplication, page window, date sort, AJAX fallback) and the          *)
(* change-detection job of backend/scheduler.py (check_once).              *)
(*                                                                         *)
(* Two specifications share the module: Spec drives search_offers against  *)
(* a fixed upstream site, SchedSpec drives check_once against a fixed      *)
(* feed of offers.  Each keeps the other's variables frozen.               *)
(***************************************************************************)
EXTENDS Integers, Sequences, FiniteSets

VARIABLES
    upstream,      \* the site: upstream[k] is the sequence of cards of listing page k
    endless,       \* the site misbehaves: past its last page it serves that page again
    frame,         \* locals of the _html_collect_until in progress: collected, page, needed
    SEARCH_MODE,   \* service.SEARCH_MODE: "html" | "ajax" | "auto"
    ncalls,        \* number of search_offers calls made so far
    last,          \* the last search_offers call: arguments, requests issued, outcome
    saved_searches,\* table saved_searches: sequence of [query, email]
    seen,          \* table seen: set of offer_id
    feed,          \* what search_offers returns to check_once, per saved query
    pc,            \* position of check_once
    run,           \* number of the check_once run in progress (or last finished)
    cursor,        \* index in saved_searches of the row check_once is at
    seen_ids,      \* check_once local: the seen set loaded for the current row
    new_items,     \* check_once local: offers found new for the current row
    smtp_configured, \* SMTP_HOST, SMTP_USER and SMTP_PASS are all set
    ntfy_configured, \* NTFY_URL is set
    dispatched,    \* offers for which a notification attempt was dispatched
    reported       \* the new_items of every (run, row) computed so far

searchVars == <<upstream, endless, frame, SEARCH_MODE, ncalls, last>>
schedVars  == <<saved_searches, seen, feed, pc, run, cursor, seen_ids, new_items,
                smtp_configured, ntfy_configured, dispatched, reported>>
vars == <<upstream, endless, frame, SEARCH_MODE, ncalls, last, saved_searches, seen, feed, pc, run,
          cursor, seen_ids, new_items, smtp_configured, ntfy_configured,
          dispatched, reported>>

-----------------------------------------------------------------------------
(* Bounds of the model *)

MaxPages == 3       \* listing pages the upstream site holds at most
MaxPerPage == 2     \* cards on one listing page at most
MaxCards == 3       \* cards on the whole site at most
MaxPage == 2        \* largest page argument of a call
MaxPageSize == 2    \* largest page_size argument of a call
MaxCalls == 2       \* search_offers calls in one behaviour
MaxDate == 1        \* publication dates are 1..MaxDate, or missing
MaxFeed == 2        \* offers search_offers returns to check_once at most
MaxRows == 2        \* rows of saved_searches at most
MaxRuns == 2        \* runs of check_once in one behaviour
FallbackPages == 2  \* MaxPages of the fallback specification
FallbackCards == 2  \* MaxCards of the fallback specification
EndlessPages == 1   \* distinct listing pages of a site whose pagination never ends
EndlessCards == 1   \* cards on those pages at most

-----------------------------------------------------------------------------
(* Values *)

None == "None"                  \* Python's None, for an absent string field
NoDate == 0                     \* date None: no parseable date on the card
DateMin == -1                   \* datetime.min, what _parse_any_iso gives for None
PageCeiling == 500              \* the hard page guard of _html_collect_until
DefaultPageSize == 10           \* page_size a call with page_size < 1 runs with
AjaxRequest == 0                \* the POST to admin-ajax.php in a request log

Titles == {"A", "B"}
Urls == {"u1", "u2"}
Dates == 1..MaxDate
Modes == {"html", "ajax", "auto"}
Queries == {"q", " "}           \* queries that are not empty; "" is the empty query

Min(a, b) == IF a <= b THEN a ELSE b

(* A card as _parse_list_html emits it: no "id" key, so id reads as None. *)
Cards == [id: {None}, title: Titles, url: Urls, date: Dates \cup {NoDate}]

(* The contents a listing page of at most n cards can have; a page shows   *)
(* an offer (a URL) once, repeats happen across pages.                     *)
PageContents(n) ==
    {p \in UNION {[1..k -> Cards] : k \in 1..Min(n, MaxPerPage)} :
        \A i, j \in DOMAIN p : i # j => p[i].url # p[j].url}

(* The upstream sites of at most `pages` listing pages and `cards` cards;  *)
(* a page beyond the last answers 404.                                     *)
RECURSIVE Fixtures(_, _)
Fixtures(pages, cards) ==
    IF pages = 0 \/ cards = 0 THEN {<<>>}
    ELSE {<<>>} \cup
         UNION {{<<p>> \o rest : rest \in Fixtures(pages - 1, cards - Len(p))} :
                p \in PageContents(cards)}

-----------------------------------------------------------------------------
(* service.py: utilities *)

(* _parse_any_iso: None (and anything unparseable) gives datetime.min. *)
ParseAnyIso(d) == IF d = NoDate THEN DateMin ELSE d

(* extract_offer_id: the first of the id keys that is present. *)
extract_offer_id(off) == off.id

(* list.sort(key=_parse_any_iso(date), reverse=True): Python's sort is     *)
(* stable, also in reverse, so equal dates keep their order.  InsertByDate *)
(* puts o behind every element whose date is >= its own.                   *)
RECURSIVE InsertByDate(_, _)
InsertByDate(o, s) ==
    IF s = <<>> THEN <<o>>
    ELSE IF ParseAnyIso(Head(s).date) >= ParseAnyIso(o.date)
         THEN <<Head(s)>> \o InsertByDate(o, Tail(s))
         ELSE <<o>> \o s

RECURSIVE SortByDateDesc(_)
SortByDateDesc(s) ==
    IF s = <<>> THEN <<>>
    ELSE InsertByDate(s[Len(s)], SortByDateDesc(SubSeq(s, 1, Len(s) - 1)))

(* A slice that fails to test the start against the length and serves the *)
(* tail of the list for a window beyond its end.                           *)
SliceClamped(s, start, end) ==
    IF s = <<>> THEN <<>>
    ELSE SubSeq(s, Min(start + 1, Len(s)), Min(end, Len(s)))

(* Python's s[start:end] for 0 <= start <= end. *)
Slice(s, start, end) ==
    IF start >= Len(s) THEN <<>> ELSE SubSeq(s, start + 1, Min(end, Len(s)))

-----------------------------------------------------------------------------
(* service.py: public pages (HTML) *)

(* A fetch without the test of status 404: raise_for_status raises for the *)
(* page the site does not hold.                                            *)
FetchListHtmlNotFoundRaises(page, reqs, F) ==
    LET held == page \in 1..Len(upstream) \/ (endless /\ upstream # <<>>) IN
    [reqs   |-> Append(reqs, page),
     raised |-> (Len(reqs) + 1) \in F \/ ~held,
     html   |-> IF page \in 1..Len(upstream) THEN upstream[page]
                ELSE IF held THEN upstream[Len(upstream)]
                ELSE <<>>]

(* _fetch_list_html: ONE GET of listing page `page`.  reqs is the log of   *)
(* the requests of the call so far and F the numbers of the requests that  *)
(* fail (transport error, or a status that raise_for_status rejects).      *)
(* html <<>> is the empty string returned for a 404: the answer for a page *)
(* past the last one, unless the site is one whose pagination never ends.  *)
FetchListHtml(page, reqs, F) ==
    [reqs   |-> Append(reqs, page),
     raised |-> (Len(reqs) + 1) \in F,
     html   |-> IF page \in 1..Len(upstream) THEN upstream[page]
                ELSE IF endless /\ upstream # <<>> THEN upstream[Len(upstream)]
                ELSE <<>>]

(* _parse_list_html: the cards of the page, sorted by date, newest first. *)
ParseListHtml(html) == SortByDateDesc(html)

(* The de-duplication of _html_collect_until: an item is kept when no item *)
(* before it in the list has its (title, url), and the kept items keep     *)
(* their order.  Written over the indices of the list, so that it does not *)
(* recurse over the few hundred items an endless site yields.              *)
Dedupe(s) ==
    LET kept == {i \in DOMAIN s :
                    \A j \in 1..(i - 1) :
                        <<s[j].title, s[j].url>> # <<s[i].title, s[i].url>>}
        Nth(k) == CHOOSE i \in kept : Cardinality({j \in kept : j <= i}) = k
    IN  [k \in 1..Cardinality(kept) |-> s[Nth(k)]]

(* The loop with the test `len(collected) <= needed`: one page too many    *)
(* when the pages read hold exactly the records needed.                    *)
RECURSIVE CollectLoopOneMore(_, _, _, _, _)
CollectLoopOneMore(collected, page, reqs, needed, F) ==
    IF Len(collected) > needed
    THEN [raised |-> FALSE, collected |-> collected, reqs |-> reqs]
    ELSE LET r == FetchListHtml(page, reqs, F) IN
         IF r.raised
         THEN [raised |-> TRUE, collected |-> collected, reqs |-> r.reqs]
         ELSE IF r.html = <<>>
         THEN [raised |-> FALSE, collected |-> collected, reqs |-> r.reqs]
         ELSE LET items == ParseListHtml(r.html) IN
              IF items = <<>>
              THEN [raised |-> FALSE, collected |-> collected, reqs |-> r.reqs]
              ELSE IF page + 1 > PageCeiling
              THEN [raised |-> FALSE, collected |-> collected \o items,
                    reqs |-> r.reqs]
              ELSE CollectLoopOneMore(collected \o items, page + 1, r.reqs,
                                      needed, F)

(* The while loop of _html_collect_until, entered with page numbered       *)
(* `page` next.  raised: a fetch raised and the exception leaves the loop. *)
RECURSIVE CollectLoop(_, _, _, _, _)
CollectLoop(collected, page, reqs, needed, F) ==
    IF Len(collected) >= needed
    THEN [raised |-> FALSE, collected |-> collected, reqs |-> reqs]
    ELSE LET r == FetchListHtml(page, reqs, F) IN
         IF r.raised
         THEN [raised |-> TRUE, collected |-> collected, reqs |-> r.reqs]
         ELSE IF r.html = <<>>
         THEN [raised |-> FALSE, collected |-> collected, reqs |-> r.reqs]
         ELSE LET items == ParseListHtml(r.html) IN
              IF items = <<>>
              THEN [raised |-> FALSE, collected |-> collected, reqs |-> r.reqs]
              ELSE IF page + 1 > PageCeiling
              THEN [raised |-> FALSE, collected |-> collected \o items,
                    reqs |-> r.reqs]
              ELSE CollectLoop(collected \o items, page + 1, r.reqs, needed, F)

(* _html_collect_until: the loop from page 1, then the de-duplication.     *)
(* The estimated total it also returns is dropped by search_offers.        *)
HtmlCollectUntil(needed, reqs, F) ==
    LET c == CollectLoop(<<>>, 1, reqs, needed, F) IN
    [raised    |-> c.raised,
     collected |-> c.collected,
     bucket    |-> IF c.raised THEN <<>> ELSE Dedupe(c.collected),
     reqs      |-> c.reqs]

(* _html_fetch_range_with_total: the window [start:end] of the bucket,     *)
(* sorted again by date.                                                   *)
HtmlFetchRangeWithTotal(page, page_size, reqs, F) ==
    LET start == (page - 1) * page_size
        end   == start + page_size
        c     == HtmlCollectUntil(end, reqs, F)
    IN  [raised    |-> c.raised,
         collected |-> c.collected,
         bucket    |-> c.bucket,
         offers    |-> IF c.raised THEN <<>>
                       ELSE SortByDateDesc(Slice(c.bucket, start, end)),
         reqs      |-> c.reqs]

-----------------------------------------------------------------------------
(* service.py: AJAX fallback *)

(* What the site answers to the fallback, apart from failing:              *)
(*   "nononce"  listing page 1 carries no nonce, so nothing is posted;     *)
(*   "empty"    admin-ajax.php answers 404 or an empty body;               *)
(*   "cards"    admin-ajax.php answers the cards of listing page 1, the    *)
(*              page the posted rewrite_url names.                         *)
AjaxReplies == {"nononce", "empty", "cards"}

(* _post_ajax_raw(query, 1): GET page 1 for the nonce, then the POST.      *)
PostAjaxRaw(reqs, F, reply) ==
    LET r1 == FetchListHtml(1, reqs, F) IN
    IF r1.raised THEN [raised |-> TRUE, html |-> <<>>, reqs |-> r1.reqs]
    ELSE IF r1.html = <<>> \/ reply = "nononce"
    THEN [raised |-> FALSE, html |-> <<>>, reqs |-> r1.reqs]
    ELSE LET posted == Append(r1.reqs, AjaxRequest) IN
         IF Len(posted) \in F
         THEN [raised |-> TRUE, html |-> <<>>, reqs |-> posted]
         ELSE [raised |-> FALSE,
               html   |-> IF reply = "cards" THEN r1.html ELSE <<>>,
               reqs   |-> posted]

(* _ajax_first_page_with_total: the posted page parsed, then page 1 read   *)
(* once more for the total.                                                *)
AjaxFirstPageWithTotal(reqs, F, reply) ==
    LET a == PostAjaxRaw(reqs, F, reply) IN
    IF a.raised THEN [raised |-> TRUE, items |-> <<>>, reqs |-> a.reqs]
    ELSE IF a.html = <<>> THEN [raised |-> FALSE, items |-> <<>>, reqs |-> a.reqs]
    ELSE LET pub == FetchListHtml(1, a.reqs, F) IN
         [raised |-> pub.raised,
          items  |-> IF pub.raised THEN <<>> ELSE ParseListHtml(a.html),
          reqs   |-> pub.reqs]

-----------------------------------------------------------------------------
(* service.py: public API *)

(* A page_size floor that raises to 1 instead of taking the default. *)
NormPageSizeFloorOne(page_size) == IF page_size < 1 THEN 1 ELSE page_size

NormPage(page) == IF page < 1 THEN 1 ELSE page
NormPageSize(page_size) == IF page_size < 1 THEN DefaultPageSize ELSE page_size

(* The branch of search_offers_with_total taken once the HTML path has     *)
(* been skipped (mode "ajax") or has raised (h.raised): the fallback in    *)
(* modes "ajax" and "auto"; in mode "html" the function falls off its end  *)
(* and returns None, which search_offers fails to unpack (TypeError).      *)
AfterHtml(mode, page, page_size, h, F, reply) ==
    IF mode \in {"ajax", "auto"}
    THEN LET a == AjaxFirstPageWithTotal(h.reqs, F, reply) IN
         [raised |-> a.raised,
          offers |-> IF a.raised \/ page # 1 THEN <<>>
                     ELSE Slice(a.items, 0, page_size),
          bucket |-> a.items,
          collected |-> h.collected,
          requests |-> a.reqs,
          htmlRequests |-> h.reqs,
          htmlRaised |-> h.raised]
    ELSE [raised |-> TRUE, offers |-> <<>>, bucket |-> <<>>,
          collected |-> h.collected,
          requests |-> h.reqs, htmlRequests |-> h.reqs,
          htmlRaised |-> h.raised]

(* search_offers(query, page_size, page), for a query that is not empty:   *)
(* search_offers_with_total with the total dropped.                        *)
SearchOffers(mode, page_size, page, F, reply) ==
    LET p  == NormPage(page)
        ps == NormPageSize(page_size)
        h  == IF mode \in {"html", "auto"}
              THEN HtmlFetchRangeWithTotal(p, ps, <<>>, F)
              ELSE [raised |-> FALSE, collected |-> <<>>, bucket |-> <<>>,
                    offers |-> <<>>, reqs |-> <<>>]
    IN  IF mode \in {"html", "auto"} /\ ~h.raised
        THEN [raised |-> FALSE, offers |-> h.offers, bucket |-> h.bucket,
              collected |-> h.collected,
              requests |-> h.reqs, htmlRequests |-> h.reqs,
              htmlRaised |-> FALSE]
        ELSE AfterHtml(mode, p, ps, h, F, reply)

-----------------------------------------------------------------------------
(* The search specification *)

NoCall == [kind |-> "none", query |-> "", page |-> 0, page_size |-> 0,
           raised |-> FALSE, offers |-> <<>>, bucket |-> <<>>,
           collected |-> <<>>, requests |-> <<>>, htmlRequests |-> <<>>,
           htmlRaised |-> FALSE, failed |-> {}]

(* No _html_collect_until is in progress. *)
NoFrame == [collected |-> <<>>, page |-> 0, needed |-> 0]

SchedIdle ==
    /\ saved_searches = <<>> /\ seen = {} /\ feed = <<>> /\ pc = "idle"
    /\ run = 0 /\ cursor = 0 /\ seen_ids = {} /\ new_items = <<>>
    /\ smtp_configured = FALSE /\ ntfy_configured = FALSE
    /\ dispatched = {} /\ reported = {}

(* SEARCH_MODE is read once, at import; its default is "html". *)
Init ==
    /\ upstream \in Fixtures(MaxPages, MaxCards)
    /\ endless = FALSE
    /\ frame = NoFrame
    /\ SEARCH_MODE = "html"
    /\ ncalls = 0
    /\ last = NoCall
    /\ SchedIdle

(* The call as the caller sees it, with the requests that failed in it. *)
Call(query, page, page_size, F, res) ==
    [kind |-> "search", query |-> query, page |-> page, page_size |-> page_size,
     raised |-> res.raised, offers |-> res.offers, bucket |-> res.bucket,
     collected |-> res.collected, requests |-> res.requests,
     htmlRequests |-> res.htmlRequests, htmlRaised |-> res.htmlRaised,
     failed |-> F \cap (1..Len(res.requests))]

(* search_offers with an empty query (or None): ([], 0) at once. *)
SearchEmptyQuery ==
    /\ ncalls < MaxCalls
    /\ \E page \in 0..MaxPage, page_size \in 0..MaxPageSize :
          last' = [NoCall EXCEPT !.kind = "search", !.page = page,
                                 !.page_size = page_size]
    /\ ncalls' = ncalls + 1
    /\ UNCHANGED <<upstream, endless, frame, SEARCH_MODE>>
    /\ UNCHANGED schedVars

(* The request numbers at which a call for `query` is made to fail, 0 for  *)
(* none: failures are played on the plain query, the whitespace query      *)
(* takes the same path through the code.                                   *)
FailPoints(query) == IF query = " " THEN {0} ELSE 0..(MaxPages + 1)

(* search_offers in mode "html": request number failAt, if any, fails. *)
SearchHtml ==
    /\ ncalls < MaxCalls
    /\ SEARCH_MODE = "html"
    /\ \E query \in Queries, page \in 0..MaxPage, page_size \in 0..MaxPageSize :
       \E failAt \in FailPoints(query) :
          LET F == {failAt} \ {0} IN
          last' = Call(query, page, page_size, F,
                       SearchOffers("html", page_size, page, F, "nononce"))
    /\ ncalls' = ncalls + 1
    /\ UNCHANGED <<upstream, endless, frame, SEARCH_MODE>>
    /\ UNCHANGED schedVars

(* search_offers(query, page=page, fast_mode=True): search_offers takes    *)
(* query, page_size and page only, so the call raises TypeError before the *)
(* body runs.                                                              *)
SearchFastMode ==
    /\ ncalls < MaxCalls
    /\ \E query \in Queries, page \in 0..MaxPage :
          last' = [NoCall EXCEPT !.kind = "fast", !.query = query,
                                 !.page = page, !.raised = TRUE]
    /\ ncalls' = ncalls + 1
    /\ UNCHANGED <<upstream, endless, frame, SEARCH_MODE>>
    /\ UNCHANGED schedVars

(* search_offers in modes "ajax" and "auto": request number failAt fails,  *)
(* and with `outage` every later one too.                                  *)
SearchFallback ==
    /\ ncalls < MaxCalls
    /\ SEARCH_MODE \in {"ajax", "auto"}
    /\ \E query \in Queries, page \in 0..MaxPage, page_size \in 0..MaxPageSize,
          failAt \in 0..(FallbackPages + 4), outage \in BOOLEAN,
          reply \in AjaxReplies :
          LET F == IF failAt = 0 THEN {}
                   ELSE IF outage THEN failAt..(FallbackPages + 4) ELSE {failAt}
          IN  last' = Call(query, page, page_size, F,
                           SearchOffers(SEARCH_MODE, page_size, page, F, reply))
    /\ ncalls' = ncalls + 1
    /\ UNCHANGED <<upstream, endless, frame, SEARCH_MODE>>
    /\ UNCHANGED schedVars

Next == SearchEmptyQuery \/ SearchHtml \/ SearchFastMode

Spec == Init /\ [][Next]_vars

(* The fallback specification: one call with SEARCH_MODE set to "ajax" or  *)
(* "auto".                                                                 *)
InitFallback ==
    /\ upstream \in Fixtures(FallbackPages, FallbackCards)
    /\ endless = FALSE
    /\ frame = NoFrame
    /\ SEARCH_MODE \in {"ajax", "auto"}
    /\ ncalls = MaxCalls - 1
    /\ last = NoCall
    /\ SchedIdle

NextFallback == SearchFallback

SpecFallback == InitFallback /\ [][NextFallback]_vars

(* The specification of a site whose pagination never ends ("pagination    *)
(* infinie bugguée"): one call, among them calls for more records than the *)
(* pages up to the guard hold.  The call is followed request by request:   *)
(* a step is one iteration of the while loop of _html_collect_until, and   *)
(* the iteration that leaves the loop carries the rest of the call.        *)
BigPageSizes == {PageCeiling + 1, MaxPerPage * PageCeiling + 1}

InitEndless ==
    /\ upstream \in Fixtures(EndlessPages, EndlessCards) \ {<<>>}
    /\ endless = TRUE
    /\ frame = NoFrame
    /\ SEARCH_MODE = "html"
    /\ ncalls = MaxCalls - 1
    /\ last = NoCall
    /\ SchedIdle

(* search_offers in mode "html" is entered with a query that is not empty: *)
(* the floors, then _html_collect_until starts with page = 1.  needed is   *)
(* at least 1, so the loop is entered.                                     *)
BeginSearch ==
    /\ ncalls < MaxCalls
    /\ SEARCH_MODE = "html"
    /\ last.kind # "running"
    /\ \E query \in Queries, page \in 1..MaxPage,
          page_size \in {MaxPageSize} \cup BigPageSizes :
          /\ last' = [NoCall EXCEPT !.kind = "running", !.query = query,
                                    !.page = page, !.page_size = page_size]
          /\ frame' = [collected |-> <<>>, page |-> 1,
                       needed |-> NormPage(page) * NormPageSize(page_size)]
    /\ ncalls' = ncalls + 1
    /\ UNCHANGED <<upstream, endless, SEARCH_MODE>>
    /\ UNCHANGED schedVars

(* What the call returns once the loop is left with `collected`, or raises *)
(* once a fetch has raised: lines 192-201, 204-212 and 291-312.            *)
Served(collected, reqs, raised) ==
    LET p      == NormPage(last.page)
        ps     == NormPageSize(last.page_size)
        bucket == IF raised THEN <<>> ELSE Dedupe(collected)
    IN  Call(last.query, last.page, last.page_size,
             IF raised THEN {Len(reqs)} ELSE {},
             [raised |-> raised,
              offers |-> IF raised THEN <<>>
                         ELSE SortByDateDesc(Slice(bucket, (p - 1) * ps, p * ps)),
              bucket |-> bucket, collected |-> collected,
              requests |-> reqs, htmlRequests |-> reqs, htmlRaised |-> raised])

(* A loop that trusts the site to run out of pages: no page guard. *)
LoopLeftUnguarded(page, collected, needed) == Len(collected) >= needed

(* The loop is left after an iteration that collected items: by the guard  *)
(* on the incremented page (lines 188-191) or by the loop test (line 178). *)
LoopLeft(page, collected, needed) ==
    page > PageCeiling \/ Len(collected) >= needed

(* One iteration of the while loop, lines 178-191, the loop test having    *)
(* passed: the fetch of frame.page fails or not; an empty page ends the    *)
(* loop, and so do the page guard and enough collected records.            *)
LoopIteration ==
    /\ last.kind = "running"
    /\ \E fails \in BOOLEAN :
          LET r == FetchListHtml(frame.page, last.requests,
                                 IF fails THEN {Len(last.requests) + 1} ELSE {})
              items == ParseListHtml(r.html)
              collected == frame.collected \o items
          IN  IF r.raised
              THEN last' = Served(frame.collected, r.reqs, TRUE) /\ frame' = NoFrame
              ELSE IF r.html = <<>> \/ items = <<>>
              THEN last' = Served(frame.collected, r.reqs, FALSE) /\ frame' = NoFrame
              ELSE IF LoopLeft(frame.page + 1, collected, frame.needed)
              THEN last' = Served(collected, r.reqs, FALSE) /\ frame' = NoFrame
              ELSE /\ last' = [last EXCEPT !.requests = r.reqs,
                                           !.htmlRequests = r.reqs,
                                           !.collected = collected]
                   /\ frame' = [frame EXCEPT !.collected = collected,
                                             !.page = frame.page + 1]
    /\ UNCHANGED <<upstream, endless, SEARCH_MODE, ncalls>>
    /\ UNCHANGED schedVars

NextEndless == BeginSearch \/ LoopIteration

SpecEndless == InitEndless /\ [][NextEndless]_vars

-----------------------------------------------------------------------------
(* scheduler.py: check_once *)

SchedQueries == {"q1", "q2"}
Emails == {None, "a@x"}
OfferIds == {"1", "2"}

(* Offers as search_offers hands them to check_once: with an id, or, like  *)
(* the cards scraped from a listing page, without one.                     *)
SchedOffers == [id: OfferIds \cup {None}, title: {"A"}, url: {"u1"}, date: {NoDate}]

Feeds == UNION {[1..k -> SchedOffers] : k \in 0..MaxFeed}
Rows == [query: SchedQueries, email: Emails]

Range(s) == {s[i] : i \in DOMAIN s}

(* search_offers(query=query, limit=50) as check_once calls it: the offers *)
(* found for the query, the same at every call while the upstream does not *)
(* change.                                                                 *)
SearchOffersLimit(query) == feed[query]

(* The filter loop of check_once: the offers with an id that is not in     *)
(* seen_ids, in order; seen_ids is not updated inside the loop.            *)
RECURSIVE NewItems(_, _)
NewItems(offers, ids) ==
    IF offers = <<>> THEN <<>>
    ELSE LET oid == extract_offer_id(Head(offers)) IN
         IF oid = None \/ oid \in ids
         THEN NewItems(Tail(offers), ids)
         ELSE <<Head(offers)>> \o NewItems(Tail(offers), ids)

(* The rows of seen after the INSERT OR IGNORE of every new item. *)
Marked(ids, items) == ids \cup {extract_offer_id(items[i]) : i \in DOMAIN items}

InitSched ==
    /\ saved_searches \in UNION {[1..k -> Rows] : k \in 0..MaxRows}
    /\ seen \in {{}, {"1"}}
    /\ feed \in [SchedQueries -> Feeds]
    /\ smtp_configured \in BOOLEAN
    /\ ntfy_configured \in BOOLEAN
    /\ pc = "idle" /\ run = 0 /\ cursor = 0
    /\ seen_ids = {} /\ new_items = <<>>
    /\ dispatched = {} /\ reported = {}
    /\ upstream = <<>> /\ endless = FALSE /\ frame = NoFrame
    /\ SEARCH_MODE = "html" /\ ncalls = 0 /\ last = NoCall

(* The scheduler fires check_once: the connection is opened and the SELECT *)
(* over saved_searches starts; with no row the job is over at once.        *)
CheckOnceStart ==
    /\ pc = "idle"
    /\ run < MaxRuns
    /\ run' = run + 1
    /\ IF saved_searches = <<>>
       THEN pc' = "idle" /\ cursor' = 0
       ELSE pc' = "detect" /\ cursor' = 1
    /\ UNCHANGED <<saved_searches, seen, feed, seen_ids, new_items,
                   smtp_configured, ntfy_configured, dispatched, reported>>
    /\ UNCHANGED searchVars

(* Lines 41-53 for the row at the cursor: search, load seen, keep the new  *)
(* offers, INSERT their ids into seen, commit.                             *)
Detect ==
    /\ pc = "detect"
    /\ LET offers == SearchOffersLimit(saved_searches[cursor].query)
           items  == NewItems(offers, seen)
       IN  /\ seen_ids' = seen
           /\ new_items' = items
           /\ seen' = Marked(seen, items)
           /\ reported' = reported \cup
                             {[run |-> run, row |-> cursor, items |-> items]}
    /\ pc' = "notify"
    /\ UNCHANGED <<saved_searches, feed, run, cursor, smtp_configured,
                   ntfy_configured, dispatched>>
    /\ UNCHANGED searchVars

(* send_email goes to the SMTP server only when SMTP is configured and the *)
(* row has an address.                                                     *)
EmailAttempted == smtp_configured /\ saved_searches[cursor].email # None

(* The loop of check_once moves to the next row, or the job closes. *)
Advance ==
    IF cursor < Len(saved_searches)
    THEN pc' = "detect" /\ cursor' = cursor + 1
    ELSE pc' = "idle" /\ cursor' = 0

(* Lines 54-61 for the row at the cursor: with new items, send_email (it   *)
(* raises when the SMTP exchange fails, and check_once ends there) then    *)
(* send_ntfy (which swallows its errors).                                  *)
Notify ==
    /\ pc = "notify"
    /\ \E smtp_fails \in BOOLEAN :
          IF new_items = <<>>
          THEN Advance /\ UNCHANGED dispatched
          ELSE IF EmailAttempted /\ smtp_fails
          THEN /\ dispatched' = dispatched \cup Range(new_items)
               /\ pc' = "idle" /\ cursor' = 0
          ELSE /\ dispatched' = IF EmailAttempted \/ ntfy_configured
                                THEN dispatched \cup Range(new_items)
                                ELSE dispatched
               /\ Advance
    /\ UNCHANGED <<saved_searches, seen, feed, run, seen_ids, new_items,
                   smtp_configured, ntfy_configured, reported>>
    /\ UNCHANGED searchVars

NextSched == CheckOnceStart \/ Detect \/ Notify

SchedSpec == InitSched /\ [][NextSched]_vars

-----------------------------------------------------------------------------
(* Vocabulary of the properties *)

(* The stable identity key of an offer: its explicit id, else its URL,     *)
(* else a hash of (title, date).                                           *)
IdentityKey(o) ==
    IF o.id # None THEN <<"id", o.id>>
    ELSE IF o.url # None THEN <<"url", o.url>>
    ELSE <<"hash", o.title, o.date>>

Keys(s) == {IdentityKey(s[i]) : i \in DOMAIN s}

(* The URLs in ascending lexicographic order, and a URL's place in it. *)
UrlOrder == <<"u1", "u2">>
UrlRank(u) == CHOOSE i \in DOMAIN UrlOrder : UrlOrder[i] = u

IsSearch == last.kind = "search" /\ last.query # ""
Needed == NormPage(last.page) * NormPageSize(last.page_size)
NextIsSearch == ncalls' = ncalls + 1 /\ last'.query # ""

(* C1: the identity keys of page 1 and of page 2 of the same query and     *)
(* page_size, asked one after the other, are disjoint.                     *)
C1_PaginationDisjoint ==
    [][(/\ IsSearch /\ NextIsSearch
        /\ ~last.raised /\ ~last'.raised
        /\ last'.query = last.query
        /\ last.page_size >= 1 /\ last'.page_size = last.page_size
        /\ last.page = 1 /\ last'.page = 2)
       => Keys(last.offers) \cap Keys(last'.offers) = {}]_vars

(* C2: the accumulated sequence holds one record per identity key, and it  *)
(* is the first-fetched copy.                                              *)
C2_OnePerIdentityKey ==
    (IsSearch /\ ~last.raised) =>
        /\ \A i, j \in DOMAIN last.bucket :
              i < j => IdentityKey(last.bucket[i]) # IdentityKey(last.bucket[j])
        /\ \A i \in DOMAIN last.bucket : \E k \in DOMAIN last.collected :
              /\ last.collected[k] = last.bucket[i]
              /\ \A m \in 1..(k - 1) :
                    IdentityKey(last.collected[m]) # IdentityKey(last.bucket[i])

(* s is in the canonical order: date descending, then identity key         *)
(* ascending.                                                              *)
Ranked(s) ==
    \A i \in 1..(Len(s) - 1) :
        \/ ParseAnyIso(s[i].date) > ParseAnyIso(s[i + 1].date)
        \/ /\ ParseAnyIso(s[i].date) = ParseAnyIso(s[i + 1].date)
           /\ UrlRank(s[i].url) <= UrlRank(s[i + 1].url)

(* C3: the returned window and the accumulated sequence it is cut from are *)
(* in the canonical order.                                                 *)
C3_OrderingStable ==
    (IsSearch /\ ~last.raised) => Ranked(last.offers) /\ Ranked(last.bucket)

(* C4: a call that repeats the last one, or asks a window the last one     *)
(* already accumulated, issues no upstream request.                        *)
C4_IdempotentCaching ==
    [][(/\ IsSearch /\ NextIsSearch
        /\ ~last.raised /\ last.failed = {}
        /\ last'.query = last.query
        /\ \/ last'.page = last.page /\ last'.page_size = last.page_size
           \/ NormPage(last'.page) * NormPageSize(last'.page_size)
                 <= Len(last.bucket))
       => last'.requests = <<>>]_vars

(* The upstream is exhausted for the call: it asked a page the site does   *)
(* not hold, or it has read every page the site holds.                     *)
Exhausted ==
    \/ \E i \in DOMAIN last.requests : last.requests[i] > Len(upstream)
    \/ \A k \in 1..Len(upstream) : \E i \in DOMAIN last.requests : last.requests[i] = k

RECURSIVE Flatten(_)
Flatten(pages) == IF pages = <<>> THEN <<>> ELSE Head(pages) \o Flatten(Tail(pages))

(* C5: without a failure the accumulated sequence holds at least           *)
(* page * page_size records unless the upstream is exhausted, and the      *)
(* window is full whenever the site holds that many distinct offers.       *)
C5_AccumulationSufficient ==
    (IsSearch /\ ~last.raised /\ last.failed = {}) =>
        /\ Len(last.bucket) >= Needed \/ Exhausted
        /\ Cardinality(Keys(Flatten(upstream))) >= Needed
              => Len(last.offers) = NormPageSize(last.page_size)

(* C6: a search never raises; after a failed fetch it returns the window   *)
(* of what was accumulated before the failure.                             *)
C6_ResilientToFailure ==
    IsSearch =>
        /\ ~last.raised
        /\ last.failed # {} =>
              last.offers =
                  SortByDateDesc(Slice(Dedupe(last.collected),
                                       (NormPage(last.page) - 1)
                                           * NormPageSize(last.page_size),
                                       Needed))

(* A request of the accumulation is the first attempt at its page. *)
FirstAttempt(i) == i = 1 \/ last.htmlRequests[i - 1] # last.htmlRequests[i]
Attempts(page) == Cardinality({i \in DOMAIN last.htmlRequests : last.htmlRequests[i] = page})

(* C7: a page fetch that fails is attempted exactly once more, and no page *)
(* is requested more than twice.                                           *)
C7_RetriedOnce ==
    IsSearch =>
        /\ \A i \in last.failed \cap DOMAIN last.htmlRequests :
              FirstAttempt(i) =>
                  /\ i < Len(last.htmlRequests)
                  /\ last.htmlRequests[i + 1] = last.htmlRequests[i]
        /\ \A i \in DOMAIN last.htmlRequests : Attempts(last.htmlRequests[i]) <= 2

(* The seen set as identity keys: it holds explicit ids. *)
SeenKeys(ids) == {<<"id", x>> : x \in ids}

RECURSIVE Available(_)
Available(pages) ==
    IF pages = <<>> THEN <<>>
    ELSE ParseListHtml(Head(pages)) \o Available(Tail(pages))

WindowStart == (NormPage(last.page) - 1) * NormPageSize(last.page_size)

(* C11: with no failed request, a call whose window starts at or beyond    *)
(* the number of records the site holds once de-duplicated returns the     *)
(* empty list and raises nothing.                                          *)
C11_GracefulTruncation ==
    (/\ IsSearch /\ last.failed = {}
     /\ WindowStart >= Len(Dedupe(Available(upstream))))
        => ~last.raised /\ last.offers = <<>>

(* C11 happens: the site holds records, pages were read, and the window    *)
(* asked starts beyond the last of them.                                   *)
C11_Witness ==
    /\ IsSearch /\ last.failed = {}
    /\ Len(Dedupe(Available(upstream))) >= 2
    /\ Len(last.requests) >= 2
    /\ WindowStart >= Len(Dedupe(Available(upstream)))
    /\ ~last.raised /\ last.offers = <<>>

(* No request of the call, finished or in progress, is for a page above    *)
(* the guard, and a call still in progress has requests left under it.     *)
UnderCeiling ==
    last.kind \in {"search", "running"} =>
        /\ Len(last.htmlRequests) <= PageCeiling
        /\ \A i \in DOMAIN last.htmlRequests : last.htmlRequests[i] <= PageCeiling
        /\ last.kind = "running" => Len(last.htmlRequests) < PageCeiling

(* C12: also against a site where every page is non-empty, one            *)
(* accumulation requests no page above the guard (500), and the call ends: *)
(* each of its steps issues one more request and leaves it under the       *)
(* guard, with the call over once the guard is reached.                    *)
C12_PageCeiling ==
    [][last.kind = "running" =>
          /\ Len(last'.htmlRequests) = Len(last.htmlRequests) + 1
          /\ UnderCeiling']_vars

(* C12 happens: the site never ran out, the call was not served in full    *)
(* and stopped at the guard, having asked for the page the guard names.    *)
C12_Witness ==
    /\ IsSearch /\ endless /\ ~last.raised /\ last.failed = {}
    /\ Len(last.collected) < Needed
    /\ Len(last.htmlRequests) = PageCeiling
    /\ last.htmlRequests[PageCeiling] = PageCeiling

(* Request number i of the last call was answered 404: it did not fail and *)
(* the site holds no such page.                                            *)
NotFoundAt(i) ==
    /\ i \notin last.failed
    /\ last.requests[i] \notin 1..Len(upstream)
    /\ ~(endless /\ upstream # <<>>)

(* C13: a 404 for page k ends the accumulation without an error: it is the *)
(* last request, no page above k is requested, what pages 1..k-1 yielded   *)
(* is what was collected, and its window is served.                        *)
C13_NotFoundEndsResults ==
    IsSearch =>
        \A i \in DOMAIN last.requests :
            NotFoundAt(i) =>
                /\ ~last.raised
                /\ i = Len(last.requests)
                /\ \A j \in DOMAIN last.requests :
                      last.requests[j] <= last.requests[i]
                /\ last.collected =
                      Available(SubSeq(upstream, 1, last.requests[i] - 1))
                /\ last.offers =
                      SortByDateDesc(Slice(Dedupe(last.collected),
                                           WindowStart, Needed))

(* C13 happens: page 3 was answered 404 and records of pages 1 and 2 are   *)
(* served.                                                                 *)
C13_Witness ==
    /\ IsSearch
    /\ Len(last.requests) = 3 /\ NotFoundAt(3) /\ last.requests[3] = 3
    /\ ~last.raised
    /\ Len(last.offers) >= 2

Max(a, b) == IF a >= b THEN a ELSE b

(* C14: a call with page < 1 or page_size < 1 returns what the call with   *)
(* the arguments raised to the floor 1 returns.                            *)
C14_FloorNormalization ==
    (IsSearch /\ last.failed = {}) =>
        LET floored == SearchOffers(SEARCH_MODE, Max(last.page_size, 1),
                                    Max(last.page, 1), {}, "nononce")
        IN  /\ last.raised = floored.raised
            /\ last.offers = floored.offers

(* C14 as the code has it: page < 1 runs as page 1 and page_size < 1 runs   *)
(* as the default page size 10; the call returns, or raises, as the call   *)
(* with those arguments does under the same failures.                      *)
C14_FloorOrDefault ==
    IsSearch =>
        LET normal == SearchOffers(SEARCH_MODE,
                                   IF last.page_size < 1 THEN DefaultPageSize
                                   ELSE last.page_size,
                                   Max(last.page, 1), last.failed, "nononce")
        IN  /\ last.raised = normal.raised
            /\ last.offers = normal.offers
            /\ last.requests = normal.requests

(* C14 happens: a call with page 0 and page_size 0 was served more than    *)
(* the one record a page_size of 1 allows.                                 *)
C14_Witness ==
    /\ IsSearch /\ ~last.raised
    /\ last.page = 0 /\ last.page_size = 0
    /\ Len(last.offers) >= 2

(* The queries that are blank: None and the empty string, both "" here,    *)
(* and a query of whitespace only.                                         *)
BlankQueries == {"", " "}

(* C15: a call with a blank query returns the empty list and issues no     *)
(* request.                                                                *)
C15_BlankQueryShortCircuit ==
    (last.kind = "search" /\ last.query \in BlankQueries) =>
        /\ ~last.raised
        /\ last.offers = <<>>
        /\ last.requests = <<>>

(* C16: a fast-mode call for page p issues exactly one request, for page   *)
(* p, and returns the records of that page as the site gave them.          *)
C16_FastModeOneFetch ==
    last.kind = "fast" =>
        /\ ~last.raised
        /\ last.requests = <<NormPage(last.page)>>
        /\ last.offers = FetchListHtml(NormPage(last.page), <<>>, {}).html

====
